---- MODULE Spec2Model ----
(***************************************************************************)
(* A model of git_iterative_blame.py: the unified-diff data model, the     *)
(* prefix similarity test, the renderer with context clipping, and the     *)
(* interactive trace loop iterative_blame_interactive.                     *)
(*                                                                         *)
(* Conventions.                                                            *)
(*   - A Python str is a sequence of one-character strings.                *)
(*   - An optional value (Python None or a value) is <<>> or <<v>>.        *)
(*   - A Python dict is a function; item assignment is DictSet.            *)
(*   - The interpreter is CPython 3 (the script's shebang line).           *)
(***************************************************************************)
EXTENDS Integers, Sequences, FiniteSets, TLC

VARIABLES
    repo,               \* which repository answers the git subprocess calls
    full_diffs,         \* iterative_blame_interactive's full_diffs argument
    pc,                 \* "ResolveStep" | "PresentChoice" | "Terminated" | "Aborted"
    target_filename,    \* cursor: file path
    target_line_num,    \* cursor: <<>> (None) or <<n>>
    commit_hash,        \* cursor: revision expression (a str)
    file_blame,         \* the local `b` where the pass reads it (line 323): <<FileBlame.lines>>
    blame_target_line,  \* <<>> or <<LineBlame>>
    c,                  \* <<>> or <<Commit>>: the revision shown
    all_matches,        \* list of (filename, left, right) tuples
    highlight_lines,    \* dict (filename, left, right) -> label
    stdout,             \* what the last Commit.print_stream call wrote
    queries,            \* the git subprocess calls of this pass of the outer loop
    choice,             \* the local `choice`: None, the str read, an int or a tuple
    error,              \* <<>> or <<exception name>> of the uncaught exception
    exit_code,          \* <<>> while running, <<0>> on return 0, <<1>> on abort
    m_l1, m_l2,         \* lines_match arguments (line_contents of l1, l2)
    m_params,           \* lines_match params dict
    m_result,           \* <<>> or <<lines_match's return value>>
    d_lines,            \* FileDiff.__init__'s argument lines
    d_key,              \* get_line's arguments (left_num, right_num)
    d_result,           \* <<>> or <<the FileDiff constructed>>
    d_found             \* <<>> or <<get_line's outcome>> (<<>> inside for KeyError)

ctl_vars == <<repo, full_diffs, pc, target_filename, target_line_num, commit_hash,
              file_blame, blame_target_line, c, all_matches, highlight_lines, stdout,
              queries, choice, error, exit_code>>
match_vars == <<m_l1, m_l2, m_params, m_result>>
parse_vars == <<d_lines, d_key, d_result, d_found>>
vars == <<repo, full_diffs, pc, target_filename, target_line_num, commit_hash,
          file_blame, blame_target_line, c, all_matches, highlight_lines, stdout,
          queries, choice, error, exit_code, m_l1, m_l2, m_params, m_result,
          d_lines, d_key, d_result, d_found>>

None == <<>>
Some(v) == <<v>>

-----------------------------------------------------------------------------
(* Python str                                                              *)

\* The characters the model uses, in code point order.
Chars == <<" ", "+", ",", "-", ".", "/", "0", "1", "2", "3",
           "4", "5", "6", "7", "8", "9", ":", "=", "@", "A",
           "D", "E", "H", "T", "U", "^", "a", "b", "c", "d",
           "e", "f", "g", "h", "i", "j", "k", "l", "m", "n",
           "o", "p", "q", "r", "s", "t", "u", "v", "w", "x",
           "y", "z", "2sup">>

\* "2sup" stands for the one character U+00B2 (superscript two).
Ord(ch) == CHOOSE i \in 1..Len(Chars) : Chars[i] = ch

IsSpace(ch) == ch = " "

Digits == <<"0", "1", "2", "3", "4", "5", "6", "7", "8", "9">>

\* An ASCII decimal digit, the class [0-9].
IsAsciiDigit(ch) == \E i \in 1..10 : Digits[i] = ch

DigitValue(ch) == (CHOOSE i \in 1..10 : Digits[i] = ch) - 1

\* The value of a non-empty run of ASCII digits.
RECURSIVE DigitsToNat(_)
DigitsToNat(s) ==
    IF s = <<>> THEN 0
    ELSE 10 * DigitsToNat(SubSeq(s, 1, Len(s) - 1)) + DigitValue(s[Len(s)])

\* str(n) for n >= 0.
RECURSIVE NatToStr(_)
NatToStr(n) ==
    IF n < 10 THEN <<Digits[n + 1]>>
    ELSE NatToStr(n \div 10) \o <<Digits[(n % 10) + 1]>>

\* str.__lt__: lexicographic by code point.
RECURSIVE StrLess(_, _)
StrLess(s, t) ==
    IF t = <<>> THEN FALSE
    ELSE IF s = <<>> THEN TRUE
    ELSE IF Head(s) = Head(t) THEN StrLess(Tail(s), Tail(t))
    ELSE Ord(Head(s)) < Ord(Head(t))

StartsWith(s, p) == Len(s) >= Len(p) /\ SubSeq(s, 1, Len(p)) = p

RECURSIVE LStrip(_)
LStrip(s) == IF s # <<>> /\ IsSpace(Head(s)) THEN LStrip(Tail(s)) ELSE s

RECURSIVE RStrip(_)
RStrip(s) ==
    IF s # <<>> /\ IsSpace(s[Len(s)]) THEN RStrip(SubSeq(s, 1, Len(s) - 1)) ELSE s

Strip(s) == LStrip(RStrip(s))

\* os.path.commonprefix of a two-element list: compares min and max of the
\* list character by character and returns the prefix of min before the
\* first difference.
RECURSIVE CommonPrefixFrom(_, _, _)
CommonPrefixFrom(s1, s2, i) ==
    IF i > Len(s1) THEN s1
    ELSE IF s1[i] # s2[i] THEN SubSeq(s1, 1, i - 1)
    ELSE CommonPrefixFrom(s1, s2, i + 1)

commonprefix(a, b) ==
    LET s1 == IF StrLess(b, a) THEN b ELSE a
        s2 == IF StrLess(b, a) THEN a ELSE b
    IN  CommonPrefixFrom(s1, s2, 1)

-----------------------------------------------------------------------------
(* matching functions                                                      *)

\* The literal 0.8 as the fraction <<numerator, denominator>>.  A threshold
\* n/d is compared by cross-multiplication: for the lengths of source lines
\* float(p)/len > n/d and p*d > n*len agree, because both the quotient and
\* the literal are correctly rounded and distinct quotients of small
\* integers differ by far more than one rounding step.
DefaultMinPrefixLength == <<4, 5>>

\* params.get('min_prefix_length', 0.8); params is <<>> ({}) or <<t>>.
ParamsGet(params) == IF params = <<>> THEN DefaultMinPrefixLength ELSE params[1]

Exceeds(p, n, t) == p * t[2] > t[1] * n

lines_match_first_only(l1c, l2c, params) ==
    LET l1_strip == Strip(l1c)
        l2_strip == Strip(l2c)
        prefix == commonprefix(l1_strip, l2_strip)
    IN  IF l1_strip = <<>> /\ l2_strip = <<>> THEN TRUE
        ELSE IF l1_strip = <<>> \/ l2_strip = <<>> THEN FALSE
        ELSE IF Exceeds(Len(prefix), Len(l1_strip), ParamsGet(params)) THEN TRUE
        ELSE FALSE

lines_match_nonstrict(l1c, l2c, params) ==
    LET l1_strip == Strip(l1c)
        l2_strip == Strip(l2c)
        prefix == commonprefix(l1_strip, l2_strip)
    IN  IF l1_strip = <<>> /\ l2_strip = <<>> THEN TRUE
        ELSE IF l1_strip = <<>> \/ l2_strip = <<>> THEN FALSE
        ELSE IF Len(prefix) * ParamsGet(params)[2] >= ParamsGet(params)[1] * Len(l1_strip) THEN TRUE
        ELSE IF Len(prefix) * ParamsGet(params)[2] >= ParamsGet(params)[1] * Len(l2_strip) THEN TRUE
        ELSE FALSE

\* lines_match(l1, l2, params) on the two line_contents.
lines_match(l1c, l2c, params) ==
    LET l1_strip == Strip(l1c)
        l2_strip == Strip(l2c)
        prefix == commonprefix(l1_strip, l2_strip)
    IN  IF l1_strip = <<>> /\ l2_strip = <<>> THEN TRUE
        ELSE IF l1_strip = <<>> \/ l2_strip = <<>> THEN FALSE
        ELSE IF Exceeds(Len(prefix), Len(l1_strip), ParamsGet(params)) THEN TRUE
        ELSE IF Exceeds(Len(prefix), Len(l2_strip), ParamsGet(params)) THEN TRUE
        ELSE FALSE

-----------------------------------------------------------------------------
(* git functions: FileDiffLine, FileDiff                                   *)

\* FileDiffLine(filename, left_line_num, right_line_num, line_contents).
\* filename is FileDiff.filename at the time the line is made: None or a str.
FileDiffLine(filename, left, right, contents) ==
    [filename |-> filename, left_line_num |-> left, right_line_num |-> right,
     line_contents |-> contents]

\* FileDiffLine.__eq__.
LineEq(l, other) ==
    /\ l.filename = other.filename
    /\ l.left_line_num = other.left_line_num
    /\ l.right_line_num = other.right_line_num
    /\ l.line_contents = other.line_contents

\* The index after literal lit at index i of s, or 0 when s does not
\* continue with lit there (0 propagates).
MatchLit(s, i, lit) ==
    IF i = 0 \/ i + Len(lit) - 1 > Len(s) THEN 0
    ELSE IF SubSeq(s, i, i + Len(lit) - 1) = lit THEN i + Len(lit) ELSE 0

\* The index after the longest run [0-9]+ at index i of s, or 0 when there
\* is no digit there.
RECURSIVE DigitRunEnd(_, _)
DigitRunEnd(s, i) ==
    IF i > Len(s) \/ ~IsAsciiDigit(s[i]) THEN i ELSE DigitRunEnd(s, i + 1)

MatchDigits(s, i) ==
    IF i = 0 \/ i > Len(s) \/ ~IsAsciiDigit(s[i]) THEN 0 ELSE DigitRunEnd(s, i)

\* re.match(r'^@@ -([0-9]+),[0-9]+ \+([0-9]+),[0-9]+ @@', line): None, or
\* <<int(group(1)), int(group(2))>>.
position_match(line) ==
    LET p1 == MatchLit(line, 1, <<"@", "@", " ", "-">>)
        p2 == MatchDigits(line, p1)
        p3 == MatchDigits(line, MatchLit(line, p2, <<",">>))
        p4 == MatchLit(line, p3, <<" ", "+">>)
        p5 == MatchDigits(line, p4)
        p6 == MatchDigits(line, MatchLit(line, p5, <<",">>))
        p7 == MatchLit(line, p6, <<" ", "@", "@">>)
    IN  IF p7 = 0 THEN None
        ELSE Some(<<DigitsToNat(SubSeq(line, p1, p2 - 1)),
                    DigitsToNat(SubSeq(line, p4, p5 - 1))>>)

LitDiff == <<"d", "i", "f", "f">>
LitIndex == <<"i", "n", "d", "e", "x">>
LitMinusA == <<"-", "-", "-", " ", "a", "/">>
LitPlusB == <<"+", "+", "+", " ", "b", "/">>

\* The state of FileDiff.__init__'s loop: the object's fields, the locals,
\* and failed = TRUE once an assertion has failed.
FileDiffStart ==
    [lines |-> <<>>, filename |-> None, parsing_contents |-> FALSE,
     left_line_num |-> 0, right_line_num |-> 0, failed |-> FALSE]

FileDiffStep_deletion_keeps_counter(st, line) ==
    IF st.failed THEN st
    ELSE IF StartsWith(line, LitDiff) \/ StartsWith(line, LitIndex) THEN
        IF st.parsing_contents THEN [st EXCEPT !.failed = TRUE] ELSE st
    ELSE IF (StartsWith(line, LitMinusA) \/ StartsWith(line, LitPlusB))
            /\ ~st.parsing_contents THEN
        IF st.filename # None
        THEN IF st.filename = Some(SubSeq(line, 7, Len(line)))
             THEN st ELSE [st EXCEPT !.failed = TRUE]
        ELSE [st EXCEPT !.filename = Some(SubSeq(line, 7, Len(line)))]
    ELSE IF position_match(line) # None THEN
        [st EXCEPT !.parsing_contents = TRUE,
                   !.left_line_num = position_match(line)[1][1],
                   !.right_line_num = position_match(line)[1][2]]
    ELSE IF st.parsing_contents THEN
        LET text == RStrip(SubSeq(line, 2, Len(line))) IN
        IF StartsWith(line, <<" ">>) THEN
            [st EXCEPT !.lines = Append(@, FileDiffLine(st.filename,
                                   Some(st.left_line_num), Some(st.right_line_num), text)),
                       !.left_line_num = @ + 1,
                       !.right_line_num = @ + 1]
        ELSE IF StartsWith(line, <<"-">>) THEN
            [st EXCEPT !.lines = Append(@, FileDiffLine(st.filename,
                                   Some(st.left_line_num), None, text))]
        ELSE IF StartsWith(line, <<"+">>) THEN
            [st EXCEPT !.lines = Append(@, FileDiffLine(st.filename,
                                   None, Some(st.right_line_num), text)),
                       !.right_line_num = @ + 1]
        ELSE [st EXCEPT !.failed = TRUE]
    ELSE st

\* One iteration of the loop of FileDiff.__init__ on raw line `line`.
FileDiffStep(st, line) ==
    IF st.failed THEN st
    ELSE IF StartsWith(line, LitDiff) \/ StartsWith(line, LitIndex) THEN
        IF st.parsing_contents THEN [st EXCEPT !.failed = TRUE] ELSE st
    ELSE IF (StartsWith(line, LitMinusA) \/ StartsWith(line, LitPlusB))
            /\ ~st.parsing_contents THEN
        IF st.filename # None
        THEN IF st.filename = Some(SubSeq(line, 7, Len(line)))
             THEN st ELSE [st EXCEPT !.failed = TRUE]
        ELSE [st EXCEPT !.filename = Some(SubSeq(line, 7, Len(line)))]
    ELSE IF position_match(line) # None THEN
        [st EXCEPT !.parsing_contents = TRUE,
                   !.left_line_num = position_match(line)[1][1],
                   !.right_line_num = position_match(line)[1][2]]
    ELSE IF st.parsing_contents THEN
        LET text == RStrip(SubSeq(line, 2, Len(line))) IN
        IF StartsWith(line, <<" ">>) THEN
            [st EXCEPT !.lines = Append(@, FileDiffLine(st.filename,
                                   Some(st.left_line_num), Some(st.right_line_num), text)),
                       !.left_line_num = @ + 1,
                       !.right_line_num = @ + 1]
        ELSE IF StartsWith(line, <<"-">>) THEN
            [st EXCEPT !.lines = Append(@, FileDiffLine(st.filename,
                                   Some(st.left_line_num), None, text)),
                       !.left_line_num = @ + 1]
        ELSE IF StartsWith(line, <<"+">>) THEN
            [st EXCEPT !.lines = Append(@, FileDiffLine(st.filename,
                                   None, Some(st.right_line_num), text)),
                       !.right_line_num = @ + 1]
        ELSE [st EXCEPT !.failed = TRUE]
    ELSE st

RECURSIVE FileDiffLoop(_, _, _)
FileDiffLoop(st, lines, i) ==
    IF i > Len(lines) THEN st ELSE FileDiffLoop(FileDiffStep(st, lines[i]), lines, i + 1)

\* FileDiff(lines): the object [filename, lines], with failed = TRUE when
\* the constructor raised AssertionError.
FileDiff(lines) ==
    LET st == FileDiffLoop(FileDiffStart, lines, 1)
    IN  [filename |-> st.filename, lines |-> st.lines, failed |-> st.failed]

\* FileDiff.get_line(left_num, right_num): <<>> for KeyError, else <<line>>.
RECURSIVE GetLineFrom(_, _, _, _)
GetLineFrom(lines, i, left_num, right_num) ==
    IF i > Len(lines) THEN None
    ELSE IF lines[i].left_line_num = left_num /\ lines[i].right_line_num = right_num
         THEN Some(lines[i])
    ELSE GetLineFrom(lines, i + 1, left_num, right_num)

get_line_or_first(d, left_num, right_num) ==
    IF GetLineFrom(d.lines, 1, left_num, right_num) = None /\ d.lines # <<>>
    THEN Some(d.lines[1])
    ELSE GetLineFrom(d.lines, 1, left_num, right_num)

get_line(d, left_num, right_num) == GetLineFrom(d.lines, 1, left_num, right_num)

-----------------------------------------------------------------------------
(* Python dict and sorted()                                                *)

DictSet(d, k, v) == [x \in (DOMAIN d) \cup {k} |-> IF x = k THEN v ELSE d[x]]

EmptyDict == [x \in {} |-> x]

\* Commit.file_diffs is keyed by FileDiff.filename: None or <<str>>.
\* sorted(file_diffs.items()) compares the keys; comparing None with a str
\* raises TypeError, and a single item is never compared.
SortRaises(fd) == Cardinality(DOMAIN fd) >= 2 /\ None \in DOMAIN fd

KeyLess(k1, k2) == StrLess(k1[1], k2[1])

RECURSIVE SortedSeq(_)
SortedSeq(keys) ==
    IF keys = {} THEN <<>>
    ELSE LET least == CHOOSE k \in keys : \A o \in keys \ {k} : KeyLess(k, o)
         IN  <<least>> \o SortedSeq(keys \ {least})

\* The keys of sorted(fd.items()), for a dict on which sorted does not raise.
SortedKeys(fd) == SortedSeq(DOMAIN fd)

-----------------------------------------------------------------------------
(* git functions: Commit                                                   *)

LitCommit == <<"c", "o", "m", "m", "i", "t">>
LitAuthor == <<"A", "u", "t", "h", "o", "r", ":">>
LitDate == <<"D", "a", "t", "e", ":">>

CommitStart ==
    [author |-> None, date |-> None, commit_message |-> <<>>,
     file_diff_contents |-> <<>>, failed |-> FALSE]

\* One iteration of the loop of Commit.__init__ on a non-empty line of the
\* output of git show (empty lines are skipped before this).
CommitStep(st, hash, line) ==
    IF st.failed THEN st
    ELSE IF StartsWith(line, LitCommit) THEN
        IF hash = SubSeq(line, 8, Len(line)) THEN st ELSE [st EXCEPT !.failed = TRUE]
    ELSE IF StartsWith(line, LitAuthor) THEN
        [st EXCEPT !.author = Some(Strip(SubSeq(line, 8, Len(line))))]
    ELSE IF StartsWith(line, LitDate) THEN
        [st EXCEPT !.date = Some(Strip(SubSeq(line, 6, Len(line))))]
    ELSE LET fdc == IF StartsWith(line, LitDiff)
                    THEN Append(st.file_diff_contents, <<>>)
                    ELSE st.file_diff_contents
         IN  IF fdc # <<>>
             THEN [st EXCEPT !.file_diff_contents =
                       [fdc EXCEPT ![Len(fdc)] = Append(@, line)]]
             ELSE IF Len(line) >= 4
                  THEN [st EXCEPT !.commit_message = Append(@, SubSeq(line, 5, Len(line)))]
                  ELSE [st EXCEPT !.failed = TRUE]

RECURSIVE CommitLoop(_, _, _, _)
CommitLoop(st, hash, lines, i) ==
    IF i > Len(lines) THEN st
    ELSE IF lines[i] = <<>> THEN CommitLoop(st, hash, lines, i + 1)
    ELSE CommitLoop(CommitStep(st, hash, lines[i]), hash, lines, i + 1)

\* The second loop of Commit.__init__: file_diffs[d.filename] = d for each
\* section; acc is [file_diffs, failed].
RECURSIVE CommitFileDiffs(_, _, _)
CommitFileDiffs(acc, contents, i) ==
    IF i > Len(contents) \/ acc.failed THEN acc
    ELSE LET d == FileDiff(contents[i])
         IN  IF d.failed THEN [acc EXCEPT !.failed = TRUE]
             ELSE CommitFileDiffs(
                      [acc EXCEPT !.file_diffs =
                           DictSet(@, d.filename, [filename |-> d.filename, lines |-> d.lines])],
                      contents, i + 1)

\* Commit(h), given hash = the stripped output of git rev-parse h and
\* show_output = the lines of git show hash: the object, with failed = TRUE
\* when the constructor raised AssertionError.
Commit(hash, show_output) ==
    LET st == CommitLoop(CommitStart, hash, show_output, 1)
        fds == IF st.failed THEN [file_diffs |-> EmptyDict, failed |-> TRUE]
               ELSE CommitFileDiffs([file_diffs |-> EmptyDict, failed |-> FALSE],
                                    st.file_diff_contents, 1)
    IN  [hash |-> hash, author |-> st.author, date |-> st.date,
         commit_message |-> st.commit_message, file_diffs |-> fds.file_diffs,
         failed |-> fds.failed]

-----------------------------------------------------------------------------
(* print_stream                                                            *)

Abs(x) == IF x < 0 THEN -x ELSE x

\* The fixed context distance of iterative_blame_interactive.
ContextAroundHighlights == 10

\* Both numbers present and closer than the context distance.
Near(a, b, context) == a # None /\ b # None /\ Abs(a[1] - b[1]) < context[1]

\* should_show_line of FileDiff.print_stream; hl is keyed (left, right).
should_show_line(l, hl, context) ==
    IF context # None
    THEN \E k \in DOMAIN hl :
             \/ Near(l.left_line_num, k[1], context)
             \/ Near(l.right_line_num, k[2], context)
    ELSE TRUE

RowLabelNone(l, hl) == None

\* highlight_lines.get((l.left_line_num, l.right_line_num)), shown when truthy.
RowLabel(l, hl) ==
    LET k == <<l.left_line_num, l.right_line_num>>
    IN  IF k \in DOMAIN hl /\ hl[k] # <<>> THEN Some(hl[k]) ELSE None

RECURSIVE FileDiffRows(_, _, _, _)
FileDiffRows(lines, i, hl, context) ==
    IF i > Len(lines) THEN <<>>
    ELSE IF should_show_line(lines[i], hl, context)
         THEN <<[label |-> RowLabel(lines[i], hl), line |-> lines[i]]>>
              \o FileDiffRows(lines, i + 1, hl, context)
    ELSE FileDiffRows(lines, i + 1, hl, context)

\* FileDiff.print_stream: what it writes for one file, as the rows shown
\* (blank = TRUE for the '(diff is blank ...)' notice).
FileDiff_print_stream(d, hl, context) ==
    IF d.lines = <<>> THEN [filename |-> d.filename, blank |-> TRUE, rows |-> <<>>]
    ELSE [filename |-> d.filename, blank |-> FALSE,
          rows |-> FileDiffRows(d.lines, 1, hl, context)]

\* this_file_highlight_lines of Commit.print_stream.
ThisFileHighlightLines(highlights, filename) ==
    [k \in {<<key[2], key[3]>> : key \in {x \in DOMAIN highlights : x[1] = filename}}
        |-> highlights[<<filename, k[1], k[2]>>]]

RECURSIVE CommitPrintFiles(_, _, _, _, _)
CommitPrintFiles(cm, keys, i, highlights, context) ==
    IF i > Len(keys) THEN <<>>
    ELSE LET d == cm.file_diffs[keys[i]]
             hl == ThisFileHighlightLines(highlights, d.filename)
         IN  IF context # None /\ DOMAIN hl = {}
             THEN CommitPrintFiles(cm, keys, i + 1, highlights, context)
             ELSE <<FileDiff_print_stream(d, hl, context)>>
                  \o CommitPrintFiles(cm, keys, i + 1, highlights, context)

\* Commit.print_stream, for a commit on which sorted does not raise: the
\* header line's hash and the per-file output, in order.
Commit_print_stream(cm, highlights, context) ==
    [hash |-> cm.hash,
     files |-> CommitPrintFiles(cm, SortedKeys(cm.file_diffs), 1, highlights, context)]

-----------------------------------------------------------------------------
(* git functions: LineBlame, FileBlame                                     *)

LineBlame(filename, orig_line_number, current_line_number, hash, contents) ==
    [filename |-> filename, orig_line_number |-> orig_line_number,
     current_line_number |-> current_line_number, commit_hash |-> hash,
     line_contents |-> contents]

\* FileBlame.get_line_current(line_num) on the list b of LineBlame:
\* <<>> for KeyError, else <<line>>.
RECURSIVE GetLineCurrentFrom(_, _, _)
GetLineCurrentFrom(b, i, line_num) ==
    IF i > Len(b) THEN None
    ELSE IF b[i].current_line_number = line_num THEN Some(b[i])
    ELSE GetLineCurrentFrom(b, i + 1, line_num)

get_line_current_or_first(b, line_num) ==
    IF b = <<>> THEN None
    ELSE IF GetLineCurrentFrom(b, 1, line_num) = None THEN Some(b[1])
    ELSE GetLineCurrentFrom(b, 1, line_num)

get_line_current_zero_based(b, line_num) ==
    IF line_num + 1 \in 1..Len(b) THEN Some(b[line_num + 1]) ELSE None

get_line_current(b, line_num) == GetLineCurrentFrom(b, 1, line_num)

-----------------------------------------------------------------------------
(* The repositories that answer the git subprocess calls                   *)

\* Bounds of the synthetic repository "any".
MaxRevs == 2
MaxBlameLines == 1

FileA == <<"a", ".", "t", "x", "t">>
FileB == <<"b", ".", "t", "x", "t">>
Files == {FileA, FileB}

HEAD == <<"H", "E", "A", "D">>
RevIds == << <<"r", "1">>, <<"r", "2">>, <<"r", "3">>, <<"r", "4">> >>

\* "any": a linear history of MaxRevs revisions whose blame and show
\* output is any well-formed output within the bounds.
\* "tworev": r1 creates a.txt with 8 lines, r2 changes its line 5.
Repos == {"any", "tworev"}

RevCount(r) == IF r = "tworev" THEN 2 ELSE MaxRevs

RECURSIVE TrailingCarets(_)
TrailingCarets(expr) ==
    IF expr # <<>> /\ expr[Len(expr)] = "^"
    THEN 1 + TrailingCarets(SubSeq(expr, 1, Len(expr) - 1)) ELSE 0

\* git rev-parse expr in a linear history: the index of the revision, or 0
\* when git fails (subprocess.CalledProcessError).
RevIndex(r, expr) ==
    LET n == TrailingCarets(expr)
        base == SubSeq(expr, 1, Len(expr) - n)
        top == IF base = HEAD THEN RevCount(r)
               ELSE IF \E i \in 1..RevCount(r) : RevIds[i] = base
                    THEN CHOOSE i \in 1..RevCount(r) : RevIds[i] = base
               ELSE 0
    IN  IF top - n >= 1 THEN top - n ELSE 0

\* The hash column of git blame: a root (boundary) revision is marked '^'.
BlameHash(i) == IF i = 1 THEN <<"^">> \o RevIds[i] ELSE RevIds[i]

LitShowAuthor == <<"A", "u", "t", "h", "o", "r", ":", " ", "A", " ", "U", " ", "T", "h", "o", "r">>
LitShowDate == <<"D", "a", "t", "e", ":", " ", " ", " ", "n", "o", "w">>
LitShowMsg == <<" ", " ", " ", " ", "m", "s", "g">>

ShowHeader(hash) ==
    << <<"c", "o", "m", "m", "i", "t", " ">> \o hash, LitShowAuthor, LitShowDate,
       <<>>, LitShowMsg, <<>> >>

\* A unified-diff range: git omits the count when it is 1.
RangeStr(start, count) ==
    NatToStr(start) \o (IF count = 1 THEN <<>> ELSE <<",">> \o NatToStr(count))

HunkHeader(L, nl, R, nr) ==
    <<"@", "@", " ", "-">> \o RangeStr(L, nl) \o <<" ", "+">> \o RangeStr(R, nr)
        \o <<" ", "@", "@">>

SectionHead(fn) ==
    << <<"d", "i", "f", "f", " ", "-", "-", "g", "i", "t", " ", "a", "/">> \o fn
           \o <<" ", "b", "/">> \o fn,
       <<"i", "n", "d", "e", "x", " ", "1", ".", ".", "2">>,
       <<"-", "-", "-", " ", "a", "/">> \o fn,
       <<"+", "+", "+", " ", "b", "/">> \o fn >>

CountKinds(body, kinds) == Cardinality({i \in 1..Len(body) : body[i][1] \in kinds})

\* One file section with a single hunk that starts at the top of the file.
Section(fn, body) ==
    LET nl == CountKinds(body, {" ", "-"})
        nr == CountKinds(body, {" ", "+"})
    IN  SectionHead(fn)
        \o <<HunkHeader(IF nl = 0 THEN 0 ELSE 1, nl, IF nr = 0 THEN 0 ELSE 1, nr)>>
        \o body

Texts == {<<"x">>, <<"y">>}
RawLines == {<<k>> \o t : k \in {" ", "-", "+"}, t \in Texts}
\* Hunk bodies of one to three lines.
BodyLens == 1..3
Bodies == UNION {[1..n -> RawLines] : n \in BodyLens}
PairBodies == [1..2 -> RawLines]

\* Two lines deleted, or two lines added.
SameKindBodies == {<< <<k, "x">>, <<k, "y">> >> : k \in {"-", "+"}}

\* The diff part of the show output of repository "any".
AnyDiffs ==
    {Section(FileA, ba) : ba \in Bodies}
    \cup {Section(FileB, bb) : bb \in Bodies}
    \cup {Section(FileA, ba) \o Section(FileB, bb) : ba \in Bodies, bb \in SameKindBodies}

\* Commit(h) for each revision of "any": every parse of a possible output.
AnyCommits ==
    [i \in 1..MaxRevs |-> {Commit(RevIds[i], ShowHeader(RevIds[i]) \o d) : d \in AnyDiffs}]

LineText(i) == <<"l", Digits[i + 1]>>
ValueOne == <<"v", "a", "l", "u", "e", " ", "=", " ", "1">>
ValueTwo == <<"v", "a", "l", "u", "e", " ", "=", " ", "2">>

\* git show of the two revisions of "tworev".
TwoRevShow ==
    << ShowHeader(RevIds[1])
         \o << <<"d", "i", "f", "f", " ", "-", "-", "g", "i", "t", " ", "a", "/">> \o FileA
                  \o <<" ", "b", "/">> \o FileA,
               <<"i", "n", "d", "e", "x", " ", "0", ".", ".", "1">>,
               <<"-", "-", "-", " ", "/", "d", "e", "v", "/", "n", "u", "l", "l">>,
               <<"+", "+", "+", " ", "b", "/">> \o FileA,
               HunkHeader(0, 0, 1, 8) >>
         \o [i \in 1..8 |-> <<"+">> \o (IF i = 5 THEN ValueOne ELSE LineText(i))],
       ShowHeader(RevIds[2])
         \o SectionHead(FileA)
         \o << HunkHeader(2, 7, 2, 7),
               <<" ">> \o LineText(2), <<" ">> \o LineText(3), <<" ">> \o LineText(4),
               <<"-">> \o ValueOne, <<"+">> \o ValueTwo,
               <<" ">> \o LineText(6), <<" ">> \o LineText(7), <<" ">> \o LineText(8) >> >>

TwoRevCommits == [i \in 1..2 |-> {Commit(RevIds[i], TwoRevShow[i])}]

\* The possible values of Commit(h) when git rev-parse h gives revision i.
Commits(r, i) == IF r = "tworev" THEN TwoRevCommits[i] ELSE AnyCommits[i]

\* git blame of a.txt in "tworev" at revision i.
TwoRevBlame(i) ==
    [n \in 1..8 |->
        LineBlame(FileA, n, n, IF i = 2 /\ n = 5 THEN RevIds[2] ELSE BlameHash(1),
                  IF n = 5 THEN (IF i = 2 THEN ValueTwo ELSE ValueOne) ELSE LineText(n))]

\* One line of a blame of "any" at revision i: it came from a revision up
\* to i, possibly from another path and another line number.
AnyBlameLines(i, n) ==
    {LineBlame(fn, o, n, BlameHash(j), <<"x">>) :
        fn \in Files, o \in BodyLens, j \in 1..i}

AnyBlames(i) ==
    UNION {{b \in [1..k -> UNION {AnyBlameLines(i, n) : n \in 1..k}] :
               \A n \in 1..k : b[n].current_line_number = n} : k \in 0..MaxBlameLines}

\* FileBlame(filename, commit_hash): <<>> when git blame fails
\* (subprocess.CalledProcessError), else <<list of LineBlame>>.
FileBlames(r, filename, hash) ==
    LET i == RevIndex(r, hash)
    IN  IF i = 0 THEN {None}
        ELSE IF r = "tworev"
             THEN (IF filename = FileA THEN {Some(TwoRevBlame(i))} ELSE {None})
        ELSE IF filename \in Files THEN {None} \cup {Some(b) : b \in AnyBlames(i)}
        ELSE {None}

-----------------------------------------------------------------------------
(* interactive interface: reading a choice                                 *)

\* str.isdigit(): non-empty and every character a digit.  Superscript two
\* is a digit for isdigit although it is not a decimal character.
IsDigitChar(ch) == IsAsciiDigit(ch) \/ ch = "2sup"

isdigit(s) == s # <<>> /\ \A i \in 1..Len(s) : IsDigitChar(s[i])

AllAsciiDigits(s) == s # <<>> /\ \A i \in 1..Len(s) : IsAsciiDigit(s[i])

\* int(s) for a str: surrounding whitespace and one sign are accepted, the
\* rest must be decimal digits.  <<>> for ValueError, else <<value>>.
PyInt(s) ==
    LET t == Strip(s)
        signed == t # <<>> /\ t[1] \in {"+", "-"}
        body == IF signed THEN Tail(t) ELSE t
    IN  IF AllAsciiDigits(body)
        THEN Some(IF signed /\ t[1] = "-" THEN 0 - DigitsToNat(body) ELSE DigitsToNat(body))
        ELSE None

\* str.split(':').
RECURSIVE Split(_, _)
Split(s, acc) ==
    IF s = <<>> THEN <<acc>>
    ELSE IF Head(s) = ":" THEN <<acc>> \o Split(Tail(s), <<>>)
    ELSE Split(Tail(s), Append(acc, Head(s)))

Contains(s, ch) == \E i \in 1..Len(s) : s[i] = ch

LitQ == <<"q">>
LitF == <<"f">>

Choice(kind, value) == [kind |-> kind, value |-> value]

ChoiceNone == Choice("None", <<>>)

parse_choice_f_quits(s, n) ==
    IF isdigit(s) THEN
        IF PyInt(s) = None THEN Choice("ValueError", <<>>)
        ELSE IF PyInt(s)[1] < 1 \/ PyInt(s)[1] > n THEN ChoiceNone
        ELSE Choice("int", PyInt(s)[1])
    ELSE IF s = LitQ \/ s = LitF THEN Choice("q", <<>>)
    ELSE IF Contains(s, ":") THEN
        LET parts == Split(s, <<>>)
        IN  IF Len(parts) # 2 THEN ChoiceNone
            ELSE IF PyInt(parts[2]) = None THEN ChoiceNone
            ELSE Choice("tuple", <<parts[1], PyInt(parts[2])[1]>>)
    ELSE ChoiceNone

\* The body of the `while choice is None` loop after choice = input(), for
\* the entered str s and n = len(all_matches): the value of choice it ends
\* with ("None", "int", "tuple"), "q" for return 0, "f" for the redisplay,
\* or "ValueError" when int(choice) raises outside the try block.
parse_choice(s, n) ==
    IF isdigit(s) THEN
        IF PyInt(s) = None THEN Choice("ValueError", <<>>)
        ELSE IF PyInt(s)[1] < 1 \/ PyInt(s)[1] > n THEN ChoiceNone
        ELSE Choice("int", PyInt(s)[1])
    ELSE IF s = LitQ THEN Choice("q", <<>>)
    ELSE IF s = LitF THEN Choice("f", <<>>)
    ELSE IF Contains(s, ":") THEN
        LET parts == Split(s, <<>>)
        IN  IF Len(parts) # 2 THEN ChoiceNone
            ELSE IF PyInt(parts[2]) = None THEN ChoiceNone
            ELSE Choice("tuple", <<parts[1], PyInt(parts[2])[1]>>)
    ELSE ChoiceNone

\* The name `long` of line 404: CPython 3 has no such builtin, so evaluating
\* (int, long) raises NameError.
LongIsDefined == FALSE

-----------------------------------------------------------------------------
(* interactive interface: one pass of the outer loop up to the prompt      *)

\* `if target_line_num:` is false for None and for 0.
Truthy(opt) == opt # None /\ opt[1] # 0

LabelTarget == <<"t", "a", "r", "g", "e", "t">>

is_match_any_side(l, target_line, params) ==
    /\ lines_match(l.line_contents, target_line.line_contents, params)
    /\ ~LineEq(l, target_line)

\* The condition of lines 348-349.
is_match(l, target_line, params) ==
    /\ lines_match(l.line_contents, target_line.line_contents, params)
    /\ ~LineEq(l, target_line)
    /\ l.left_line_num # None

\* The loop over the lines of one FileDiff at lines 347-352; acc is
\* [all_matches, highlight_lines].
RECURSIVE MatchLines(_, _, _, _, _)
MatchLines(acc, d, i, target_line, params) ==
    IF i > Len(d.lines) THEN acc
    ELSE LET l == d.lines[i]
             match == <<d.filename, l.left_line_num, l.right_line_num>>
         IN  IF is_match(l, target_line, params)
             THEN MatchLines(
                      [all_matches |-> Append(acc.all_matches, match),
                       highlight_lines |->
                           DictSet(acc.highlight_lines, match,
                                   NatToStr(Len(acc.all_matches) + 1))],
                      d, i + 1, target_line, params)
             ELSE MatchLines(acc, d, i + 1, target_line, params)

RECURSIVE MatchFiles(_, _, _, _, _, _)
MatchFiles(acc, cm, keys, i, target_line, params) ==
    IF i > Len(keys) THEN acc
    ELSE MatchFiles(MatchLines(acc, cm.file_diffs[keys[i]], 1, target_line, params),
                    cm, keys, i + 1, target_line, params)

\* The order of `for _, d in sorted(c.file_diffs.items())`.
file_order(fd) == SortedKeys(fd)

\* Lines 342-352: all_matches and highlight_lines for target_line.
find_matches(cm, target_key, target_line, params) ==
    MatchFiles([all_matches |-> <<>>,
                highlight_lines |-> DictSet(EmptyDict, target_key, LabelTarget)],
               cm, file_order(cm.file_diffs), 1, target_line, params)

\* Line 357.
context_for(full, highlights) ==
    IF full \/ DOMAIN highlights = {} THEN None ELSE Some(ContextAroundHighlights)

Failure(name) == [error |-> Some(name)]

resolve_blame_shows_cursor_revision(bo, filename, line_num, hash) ==
    IF bo = None THEN Failure("CalledProcessError")
    ELSE IF Truthy(line_num) THEN
        LET found == get_line_current(bo[1], line_num[1])
        IN  IF found = None THEN Failure("KeyError")
            ELSE [error |-> None, blame_target_line |-> found,
                  target_filename |-> found[1].filename,
                  target_commit_hash |->
                      IF StartsWith(hash, <<"^">>) THEN Tail(hash) ELSE hash]
    ELSE [error |-> None, blame_target_line |-> None, target_filename |-> filename,
          target_commit_hash |->
              IF StartsWith(hash, <<"^">>) THEN Tail(hash) ELSE hash]


\* Lines 319-334 for the blame outcome bo: the failure, or the looked-up
\* line, the file name to use and the revision to show.
resolve_blame(bo, filename, line_num, hash) ==
    IF bo = None THEN Failure("CalledProcessError")
    ELSE IF Truthy(line_num) THEN
        LET found == get_line_current(bo[1], line_num[1])
        IN  IF found = None THEN Failure("KeyError")
            ELSE [error |-> None, blame_target_line |-> found,
                  target_filename |-> found[1].filename,
                  target_commit_hash |->
                      IF StartsWith(found[1].commit_hash, <<"^">>)
                      THEN Tail(found[1].commit_hash) ELSE found[1].commit_hash]
    ELSE [error |-> None, blame_target_line |-> None, target_filename |-> filename,
          target_commit_hash |->
              IF StartsWith(hash, <<"^">>) THEN Tail(hash) ELSE hash]

\* Lines 338-359 for the parsed commit cm: the failure, or all_matches,
\* highlight_lines and the output of print_stream.
resolve_show(cm, pre, line_num, params, full) ==
    IF cm.failed THEN Failure("AssertionError")
    ELSE IF Truthy(line_num) THEN
        LET key == Some(pre.target_filename)
            orig == Some(pre.blame_target_line[1].orig_line_number)
        IN  IF key \notin DOMAIN cm.file_diffs THEN Failure("KeyError")
            ELSE IF get_line(cm.file_diffs[key], None, orig) = None THEN Failure("KeyError")
            ELSE IF SortRaises(cm.file_diffs) THEN Failure("TypeError")
            ELSE LET m == find_matches(cm, <<key, None, orig>>,
                                       get_line(cm.file_diffs[key], None, orig)[1], params)
                 IN  [error |-> None, all_matches |-> m.all_matches,
                      highlight_lines |-> m.highlight_lines,
                      stdout |-> Commit_print_stream(cm, m.highlight_lines,
                                     context_for(full, m.highlight_lines))]
    ELSE IF SortRaises(cm.file_diffs) THEN Failure("TypeError")
    ELSE [error |-> None, all_matches |-> <<>>, highlight_lines |-> EmptyDict,
          stdout |-> Commit_print_stream(cm, EmptyDict, context_for(full, EmptyDict))]

-----------------------------------------------------------------------------
(* interactive interface: the state machine                                *)

\* What the operator may type at the prompt.
Inputs ==
    {<<>>,
     <<"q">>,
     <<"f">>,
     <<"q", "q">>,
     <<" ", "q">>,
     <<"x">>,
     <<"a", ".", "t", "x", "t">>,
     <<"0">>,
     <<"1">>,
     <<"2">>,
     <<"3">>,
     <<"0", "1">>,
     <<"+", "1">>,
     <<"-", "1">>,
     <<"2sup">>,
     <<"1", "2sup">>,
     <<"a", ".", "t", "x", "t", ":", "1">>,
     <<"a", ".", "t", "x", "t", ":", "5">>,
     <<"a", ".", "t", "x", "t", ":", "0">>,
     <<"a", ".", "t", "x", "t", ":", "-", "1">>,
     <<"a", ".", "t", "x", "t", ":", " ", "1">>,
     <<"b", ".", "t", "x", "t", ":", "2">>,
     <<"z", ":", "1">>,
     <<":", "1">>,
     <<"a", ".", "t", "x", "t", ":">>,
     <<"a", ".", "t", "x", "t", ":", "x">>,
     <<"a", ".", "t", "x", "t", ":", "2sup">>,
     <<"a", ".", "t", "x", "t", ":", "1", ":", "2">>}

StartLines == {None, Some(0), Some(1), Some(2), Some(5)}

MatchIdle == m_l1 = <<>> /\ m_l2 = <<>> /\ m_params = <<>> /\ m_result = None

ParseIdle == d_lines = <<>> /\ d_key = <<None, None>> /\ d_result = None /\ d_found = None

\* The call iterative_blame_interactive(target_filename, target_file_position,
\* commit_hash=args.commit_hash, full_diffs=args.full_diffs) of the entry point.
Init ==
    /\ repo \in Repos
    /\ full_diffs \in BOOLEAN
    /\ pc = "ResolveStep"
    /\ target_filename \in Files
    /\ target_line_num \in StartLines
    /\ commit_hash = HEAD
    /\ file_blame = None
    /\ blame_target_line = None
    /\ c = None
    /\ all_matches = <<>>
    /\ highlight_lines = EmptyDict
    /\ stdout = None
    /\ queries = <<>>
    /\ choice = ChoiceNone
    /\ error = None
    /\ exit_code = None
    /\ MatchIdle
    /\ ParseIdle

\* The subprocess calls: git blame (line 264), git rev-parse (line 60) and
\* git show (line 68).
BlameQuery(filename, rev) == [kind |-> "blame", file |-> filename, rev |-> rev]

RevParseQuery(rev) == [kind |-> "rev-parse", file |-> <<>>, rev |-> rev]

ShowQuery(rev) == [kind |-> "show", file |-> <<>>, rev |-> rev]

\* An uncaught exception ends the process with a non-zero exit status.  The
\* caller says what file_blame, c and queries hold at that point: what the pass
\* fetched when it fails before the prompt, nothing once the prompt is left.
Abort(name) ==
    /\ pc' = "Aborted"
    /\ error' = Some(name)
    /\ exit_code' = Some(1)
    /\ blame_target_line' = None
    /\ all_matches' = <<>>
    /\ highlight_lines' = EmptyDict
    /\ stdout' = None
    /\ UNCHANGED <<repo, full_diffs, target_filename, target_line_num, commit_hash>>

\* Lines 319-362: blame the cursor, show the revision, compute the matches
\* and print, up to the first prompt.  Without an active line number b is
\* assigned and never read, so file_blame stays <<>>; the blame query itself
\* is in queries either way.  match_params is {} (the entry point
\* never passes it).
ResolveStep ==
    /\ pc = "ResolveStep"
    /\ \E bo \in FileBlames(repo, target_filename, commit_hash) :
         LET pre == resolve_blame(bo, target_filename, target_line_num, commit_hash)
             q1 == <<BlameQuery(target_filename, commit_hash)>>
         IN  /\ file_blame' = IF Truthy(target_line_num) THEN bo ELSE None
             /\ IF pre.error # None
                THEN Abort(pre.error[1]) /\ c' = None /\ queries' = q1 /\ UNCHANGED choice
                ELSE LET q2 == Append(q1, RevParseQuery(pre.target_commit_hash))
                     IN  IF RevIndex(repo, pre.target_commit_hash) = 0
                         THEN /\ Abort("CalledProcessError")
                              /\ c' = None
                              /\ queries' = q2
                              /\ UNCHANGED choice
                         ELSE \E cm \in Commits(repo, RevIndex(repo, pre.target_commit_hash)) :
                                LET fin == resolve_show(cm, pre, target_line_num, <<>>,
                                                        full_diffs)
                                    q3 == Append(q2, ShowQuery(cm.hash))
                                IN  /\ queries' = q3
                                    /\ IF fin.error # None
                                       THEN /\ Abort(fin.error[1])
                                            /\ c' = IF cm.failed THEN None ELSE Some(cm)
                                            /\ UNCHANGED choice
                                       ELSE /\ pc' = "PresentChoice"
                                            /\ choice' = ChoiceNone
                                            /\ target_filename' = pre.target_filename
                                            /\ blame_target_line' = pre.blame_target_line
                                            /\ c' = Some(cm)
                                            /\ all_matches' = fin.all_matches
                                            /\ highlight_lines' = fin.highlight_lines
                                            /\ stdout' = Some(fin.stdout)
                                            /\ UNCHANGED <<repo, full_diffs, target_line_num,
                                                           commit_hash, error, exit_code>>
    /\ UNCHANGED <<match_vars, parse_vars>>

\* Lines 402-409 and the return to the top of the loop: the new cursor.  The
\* locals of the finished pass are dead (each is assigned before its next
\* use), so they are reset.
Select_keeps_symbolic(filename, line_num) ==
    /\ pc' = "ResolveStep"
    /\ target_filename' = filename
    /\ target_line_num' = Some(line_num)
    /\ commit_hash' = commit_hash \o <<"^">>
    /\ file_blame' = None
    /\ blame_target_line' = None
    /\ c' = None
    /\ all_matches' = <<>>
    /\ highlight_lines' = EmptyDict
    /\ stdout' = None
    /\ queries' = <<>>
    /\ UNCHANGED <<repo, full_diffs, error, exit_code>>

Select_double_marker(filename, line_num) ==
    /\ pc' = "ResolveStep"
    /\ target_filename' = filename
    /\ target_line_num' = Some(line_num)
    /\ commit_hash' = c[1].hash \o <<"^", "^">>
    /\ file_blame' = None
    /\ blame_target_line' = None
    /\ c' = None
    /\ all_matches' = <<>>
    /\ highlight_lines' = EmptyDict
    /\ stdout' = None
    /\ queries' = <<>>
    /\ UNCHANGED <<repo, full_diffs, error, exit_code>>

Select_drops_line(filename, line_num) ==
    /\ pc' = "ResolveStep"
    /\ target_filename' = filename
    /\ target_line_num' = None
    /\ commit_hash' = c[1].hash \o <<"^">>
    /\ file_blame' = None
    /\ blame_target_line' = None
    /\ c' = None
    /\ all_matches' = <<>>
    /\ highlight_lines' = EmptyDict
    /\ stdout' = None
    /\ queries' = <<>>
    /\ UNCHANGED <<repo, full_diffs, error, exit_code>>

\* Lines 402-409 for a tuple choice, or an int choice that passed line 404.
Select(filename, line_num) ==
    /\ pc' = "ResolveStep"
    /\ target_filename' = filename
    /\ target_line_num' = Some(line_num)
    /\ commit_hash' = c[1].hash \o <<"^">>
    /\ file_blame' = None
    /\ blame_target_line' = None
    /\ c' = None
    /\ all_matches' = <<>>
    /\ highlight_lines' = EmptyDict
    /\ stdout' = None
    /\ queries' = <<>>
    /\ UNCHANGED <<repo, full_diffs, error, exit_code>>

ReadChoice_f_refetches(s) ==
    /\ pc = "PresentChoice"
    /\ LET ch == parse_choice(s, Len(all_matches))
       IN  CASE ch.kind = "q" ->
                  /\ pc' = "Terminated"
                  /\ exit_code' = Some(0)
                  /\ choice' = Choice("str", s)
                  /\ UNCHANGED <<repo, full_diffs, target_filename, target_line_num,
                                 commit_hash, file_blame, blame_target_line, c, all_matches,
                                 highlight_lines, stdout, queries, error>>
             [] ch.kind = "f" ->
                  /\ stdout' = Some(Commit_print_stream(c[1], highlight_lines, None))
                  /\ queries' = <<queries[1], queries[2], ShowQuery(c[1].hash), ShowQuery(c[1].hash)>>
                  /\ UNCHANGED <<repo, full_diffs, pc, target_filename, target_line_num,
                                 commit_hash, file_blame, blame_target_line, c, all_matches,
                                 highlight_lines, choice, error, exit_code>>
             [] ch.kind = "None" ->
                  UNCHANGED <<repo, full_diffs, pc, target_filename, target_line_num,
                                 commit_hash, file_blame, blame_target_line, c, all_matches,
                                 highlight_lines, stdout, queries, choice, error,
                                 exit_code>>
             [] ch.kind = "ValueError" ->
                  /\ Abort("ValueError")
                  /\ choice' = Choice("str", s)
                  /\ file_blame' = None
                  /\ c' = None
                  /\ UNCHANGED queries
             [] ch.kind = "tuple" -> Select(ch.value[1], ch.value[2]) /\ choice' = ch
             [] ch.kind = "int" ->
                  /\ choice' = ch
                  /\ IF LongIsDefined
                     THEN Select(all_matches[ch.value][1][1], all_matches[ch.value][2][1])
                     ELSE Abort("NameError") /\ file_blame' = None /\ c' = None /\ UNCHANGED queries
    /\ UNCHANGED <<match_vars, parse_vars>>

\* Lines 366-409 for one line s read by input().
ReadChoice(s) ==
    /\ pc = "PresentChoice"
    /\ LET ch == parse_choice(s, Len(all_matches))
       IN  CASE ch.kind = "q" ->
                  /\ pc' = "Terminated"
                  /\ exit_code' = Some(0)
                  /\ choice' = Choice("str", s)
                  /\ UNCHANGED <<repo, full_diffs, target_filename, target_line_num,
                                 commit_hash, file_blame, blame_target_line, c, all_matches,
                                 highlight_lines, stdout, queries, error>>
             [] ch.kind = "f" ->
                  /\ stdout' = Some(Commit_print_stream(c[1], highlight_lines, None))
                  /\ UNCHANGED <<repo, full_diffs, pc, target_filename, target_line_num,
                                 commit_hash, file_blame, blame_target_line, c, all_matches,
                                 highlight_lines, queries, choice, error, exit_code>>
             [] ch.kind = "None" ->
                  UNCHANGED <<repo, full_diffs, pc, target_filename, target_line_num,
                                 commit_hash, file_blame, blame_target_line, c, all_matches,
                                 highlight_lines, stdout, queries, choice, error,
                                 exit_code>>
             [] ch.kind = "ValueError" ->
                  /\ Abort("ValueError")
                  /\ choice' = Choice("str", s)
                  /\ file_blame' = None
                  /\ c' = None
                  /\ UNCHANGED queries
             [] ch.kind = "tuple" -> Select(ch.value[1], ch.value[2]) /\ choice' = ch
             [] ch.kind = "int" ->
                  /\ choice' = ch
                  /\ IF LongIsDefined
                     THEN Select(all_matches[ch.value][1][1], all_matches[ch.value][2][1])
                     ELSE Abort("NameError") /\ file_blame' = None /\ c' = None /\ UNCHANGED queries
    /\ UNCHANGED <<match_vars, parse_vars>>

\* input() at end of file raises EOFError.
ReadEOF ==
    /\ pc = "PresentChoice"
    /\ Abort("EOFError")
    /\ file_blame' = None
    /\ c' = None
    /\ UNCHANGED <<queries, choice>>
    /\ UNCHANGED <<match_vars, parse_vars>>

Next ==
    \/ ResolveStep
    \/ \E s \in Inputs : ReadChoice(s)
    \/ ReadEOF

Spec == Init /\ [][Next]_vars

-----------------------------------------------------------------------------
(* lines_match as a function of its arguments                              *)

MaxLen == 3

MatchAlphabet == {"a", "b", " "}
FooBar == <<"f", "o", "o", "b", "a", "r">>
FooBaz == <<"f", "o", "o", "b", "a", "z">>

MatchTexts ==
    UNION {[1..n -> MatchAlphabet] : n \in 0..MaxLen} \cup {FooBar, FooBaz, ValueOne, ValueTwo}

\* {} and {'min_prefix_length': k/10} for k = 1..10.
MatchParams == {<<>>} \cup {<< <<k, 10>> >> : k \in 1..10}

ControlIdle ==
    /\ repo = "any"
    /\ full_diffs = FALSE
    /\ pc = "lines_match"
    /\ target_filename = FileA
    /\ target_line_num = None
    /\ commit_hash = HEAD
    /\ file_blame = None
    /\ blame_target_line = None
    /\ c = None
    /\ all_matches = <<>>
    /\ highlight_lines = EmptyDict
    /\ stdout = None
    /\ queries = <<>>
    /\ choice = ChoiceNone
    /\ error = None
    /\ exit_code = None

InitMatch ==
    /\ ControlIdle
    /\ ParseIdle
    /\ m_l1 \in MatchTexts
    /\ m_l2 \in MatchTexts
    /\ m_params \in MatchParams
    /\ m_result = None

CallLinesMatch ==
    /\ m_result = None
    /\ m_result' = Some(lines_match(m_l1, m_l2, m_params))
    /\ UNCHANGED <<m_l1, m_l2, m_params>>
    /\ UNCHANGED <<ctl_vars, parse_vars>>

NextMatch == CallLinesMatch

SpecMatch == InitMatch /\ [][NextMatch]_vars

-----------------------------------------------------------------------------
(* Lines 338-359 on commits whose hunks lie around the context distance    *)

\* A section of a.txt with two hunks: two lines added at the top, and a
\* second hunk that starts at post-image line s.
TwoHunkSection(body1, s, body2) ==
    SectionHead(FileA)
    \o <<HunkHeader(0, 0, 1, 2)>> \o body1
    \o <<HunkHeader(s - 2, CountKinds(body2, {" ", "-"}), s, CountKinds(body2, {" ", "+"}))>>
    \o body2

SecondHunkStarts == {9, 10, 11, 12}

RenderDiffs ==
    LET tops == {<< <<"+">> \o t1, <<"+">> \o t2 >> : t1 \in Texts, t2 \in Texts}
        asec == {TwoHunkSection(b1, s, b2) :
                    b1 \in tops, s \in SecondHunkStarts, b2 \in PairBodies}
        bsec == {<<>>} \cup {Section(FileB, bb) : bb \in SameKindBodies}
    IN  {a \o b : a \in asec, b \in bsec}

RenderCommits == {Commit(RevIds[2], ShowHeader(RevIds[2]) \o d) : d \in RenderDiffs}

\* The state at line 338 for a target line of a.txt that the revision added.
InitRender ==
    /\ repo = "any"
    /\ full_diffs \in BOOLEAN
    /\ pc = "Render"
    /\ target_filename = FileA
    /\ target_line_num \in {None, Some(1), Some(2)}
    /\ commit_hash = HEAD
    /\ blame_target_line \in
           IF target_line_num = None THEN {None}
           ELSE {Some(LineBlame(FileA, o, target_line_num[1], RevIds[2], <<"x">>)) :
                    o \in {1, 2}}
    /\ file_blame = IF blame_target_line = None THEN None ELSE Some(<<blame_target_line[1]>>)
    /\ c \in {Some(cm) : cm \in RenderCommits}
    /\ all_matches = <<>>
    /\ highlight_lines = EmptyDict
    /\ stdout = None
    /\ queries = <<BlameQuery(target_filename, commit_hash), RevParseQuery(c[1].hash),
                   ShowQuery(c[1].hash)>>
    /\ choice = ChoiceNone
    /\ error = None
    /\ exit_code = None
    /\ MatchIdle
    /\ ParseIdle

RenderStep ==
    /\ pc = "Render"
    /\ LET pre == [error |-> None, blame_target_line |-> blame_target_line,
                   target_filename |-> target_filename, target_commit_hash |-> c[1].hash]
           fin == resolve_show(c[1], pre, target_line_num, <<>>, full_diffs)
       IN  IF fin.error # None
           THEN Abort(fin.error[1]) /\ UNCHANGED <<file_blame, c, queries, choice>>
           ELSE /\ pc' = "PresentChoice"
                /\ choice' = ChoiceNone
                /\ all_matches' = fin.all_matches
                /\ highlight_lines' = fin.highlight_lines
                /\ stdout' = Some(fin.stdout)
                /\ UNCHANGED <<repo, full_diffs, target_filename, target_line_num,
                               commit_hash, file_blame, blame_target_line, c, queries,
                               error, exit_code>>
    /\ UNCHANGED <<match_vars, parse_vars>>

NextRender == RenderStep

SpecRender == InitRender /\ [][NextRender]_vars

-----------------------------------------------------------------------------
(* FileDiff.__init__ and FileDiff.get_line as pure functions               *)

MaxDiffLines == 5

HeaderTenTen == <<"@", "@", " ", "-", "1", "0", ",", "3", " ", "+", "1", "0", ",", "4", " ", "@", "@">>
HeaderThreeSeven == <<"@", "@", " ", "-", "3", ",", "2", " ", "+", "7", ",", "2", " ", "@", "@">>
HeaderNoCounts == <<"@", "@", " ", "-", "5", " ", "+", "5", " ", "@", "@">>
FileHeaderA == <<"-", "-", "-", " ", "a", "/", "a", ".", "t", "x", "t">>
NoNewline ==
    <<"\\", " ", "N", "o", " ", "n", "e", "w", "l", "i", "n", "e", " ", "a", "t", " ",
      "e", "n", "d", " ", "o", "f", " ", "f", "i", "l", "e">>

\* The lines git show can give one file section: the '--- a/' line, hunk
\* headers with counts and (for a one-line range) without, body lines and
\* the no-newline marker.
DiffAlphabet ==
    {FileHeaderA, HeaderTenTen, HeaderThreeSeven, HeaderNoCounts,
     <<" ", "x">>, <<"-", "x">>, <<"+", "x">>, NoNewline}

DiffInputs == UNION {[1..n -> DiffAlphabet] : n \in 0..MaxDiffLines}

DiffKeys == {<<None, None>>, <<None, Some(11)>>}

InitParse ==
    /\ ControlIdle
    /\ MatchIdle
    /\ d_lines \in DiffInputs
    /\ d_key \in DiffKeys
    /\ d_result = None
    /\ d_found = None

\* d = FileDiff(lines); d.get_line(left_num, right_num).  An AssertionError
\* of the constructor leaves no object to look up in.
CallFileDiff ==
    /\ d_result = None
    /\ d_result' = Some(FileDiff(d_lines))
    /\ d_found' = IF FileDiff(d_lines).failed THEN None
                  ELSE Some(get_line(FileDiff(d_lines), d_key[1], d_key[2]))
    /\ UNCHANGED <<d_lines, d_key>>
    /\ UNCHANGED <<ctl_vars, match_vars>>

NextParse == CallFileDiff

SpecParse == InitParse /\ [][NextParse]_vars

-----------------------------------------------------------------------------
(* Properties of the operator's input at the prompt                        *)

\* The number of ':' characters of s.
RECURSIVE ColonCount(_)
ColonCount(s) ==
    IF s = <<>> THEN 0
    ELSE (IF Head(s) = ":" THEN 1 ELSE 0) + ColonCount(Tail(s))

ColonAt(s) == CHOOSE i \in 1..Len(s) : s[i] = ":" /\ \A j \in 1..(i - 1) : s[j] # ":"

PathOf(s) == SubSeq(s, 1, ColonAt(s) - 1)

NumberOf(s) == SubSeq(s, ColonAt(s) + 1, Len(s))

\* A decimal integer: ASCII digits, optionally signed, possibly padded with
\* blanks.
Unpadded(t) ==
    LET first == CHOOSE i \in 1..(Len(t) + 1) :
                     (i = Len(t) + 1 \/ t[i] # " ") /\ \A j \in 1..(i - 1) : t[j] = " "
        last == CHOOSE i \in 0..Len(t) :
                     (i = 0 \/ t[i] # " ") /\ \A j \in (i + 1)..Len(t) : t[j] = " "
    IN  SubSeq(t, first, last)

Unsigned(t) == IF t # <<>> /\ t[1] \in {"+", "-"} THEN Tail(t) ELSE t

IsDecimal(t) ==
    LET u == Unsigned(Unpadded(t))
    IN  u # <<>> /\ \A i \in 1..Len(u) : u[i] \in {"0", "1", "2", "3", "4", "5", "6", "7", "8", "9"}

DecimalValue(t) ==
    LET u == Unpadded(t)
        v == DigitsToNat(Unsigned(u))
    IN  IF u[1] = "-" THEN 0 - v ELSE v

\* s is an index of the candidate list of length n.
IsIndexInput(s, n) ==
    /\ s # <<>>
    /\ \A i \in 1..Len(s) : s[i] \in {"0", "1", "2", "3", "4", "5", "6", "7", "8", "9"}
    /\ DigitsToNat(s) \in 1..n

\* s is a token path:number.
IsPathNumber(s) == ColonCount(s) = 1 /\ IsDecimal(NumberOf(s))

PromptUnchanged ==
    UNCHANGED <<pc, target_filename, target_line_num, commit_hash, blame_target_line,
                c, all_matches, highlight_lines, error, exit_code>>

\* C1 as the specification states it: at a prompt with n candidates, entering
\* the decimal index k in 1..n selects the k-th candidate: the next
\* ResolveStep runs with the cursor (that candidate's file, its pre-revision
\* line number, the shown revision's id followed by '^').
C1_IndexSelectsCandidate ==
    [][\A s \in Inputs :
          (pc = "PresentChoice" /\ IsIndexInput(s, Len(all_matches)) /\ ReadChoice(s))
          => LET m == all_matches[DigitsToNat(s)]
             IN  /\ pc' = "ResolveStep"
                 /\ error' = None
                 /\ target_filename' = m[1][1]
                 /\ target_line_num' = m[2]
                 /\ commit_hash' = c[1].hash \o <<"^">>]_vars

\* C2: at a prompt, a token path:number is accepted whether or not that
\* location is a listed candidate, and the next ResolveStep runs with the
\* cursor (path, number, the shown revision's id followed by '^').
C2_PathNumberSelects ==
    [][\A s \in Inputs :
          (pc = "PresentChoice" /\ IsPathNumber(s) /\ ReadChoice(s))
          => /\ pc' = "ResolveStep"
             /\ error' = None
             /\ exit_code' = None
             /\ target_filename' = PathOf(s)
             /\ target_line_num' = Some(DecimalValue(NumberOf(s)))
             /\ commit_hash' = c[1].hash \o <<"^">>
             /\ choice' = Choice("tuple", <<PathOf(s), DecimalValue(NumberOf(s))>>)]_vars

\* A location that is no candidate of the shown revision (b.txt is not part
\* of either revision of the two-revision repository) has been selected.
C2_Witness ==
    /\ repo = "tworev"
    /\ pc = "ResolveStep"
    /\ choice = Choice("tuple", <<FileB, 2>>)
    /\ target_filename = FileB
    /\ target_line_num = Some(2)
    /\ commit_hash = <<"r", "2", "^">>

\* C3: the session reaches Terminated with exit status 0 exactly when the
\* operator enters q, and q terminates it at once from every PresentChoice
\* state.
C3_QuitTerminates ==
    /\ [](/\ pc = "Terminated" <=> exit_code = Some(0)
          /\ pc = "Terminated" => choice = Choice("str", LitQ) /\ error = None
          /\ pc = "PresentChoice" => ENABLED ReadChoice(LitQ))
    /\ [][(pc = "PresentChoice" /\ ReadChoice(LitQ))
             => (pc' = "Terminated" /\ exit_code' = Some(0))]_vars

C3_Witness ==
    pc = "Terminated" /\ exit_code = Some(0) /\ choice = Choice("str", LitQ)

\* An input the interface recognizes at a prompt with n candidates.
Recognized(s, n) == s = LitQ \/ s = LitF \/ IsIndexInput(s, n) \/ IsPathNumber(s)

\* C4 as the specification states it: any other input (an index outside
\* 1..n, an empty line, text that is neither q, f, an index nor path:number)
\* is rejected: the cursor and the session are unchanged and the prompt
\* repeats; it never aborts the session.
C4_OtherInputRejected ==
    [][\A s \in Inputs :
          (pc = "PresentChoice" /\ ~Recognized(s, Len(all_matches)) /\ ReadChoice(s))
          => (PromptUnchanged /\ pc' = "PresentChoice")]_vars

-----------------------------------------------------------------------------
(* Properties of the display                                               *)

\* The label the highlight set gives line l of file fn, if any.
HighlightLabel(h, fn, l) ==
    LET k == <<fn, l.left_line_num, l.right_line_num>>
    IN  IF k \in DOMAIN h THEN Some(h[k]) ELSE None

\* out shows every file of cm and every line of each, with cm's labels.
ShowsEverything(out, cm, h) ==
    /\ out.hash = cm.hash
    /\ Len(out.files) = Cardinality(DOMAIN cm.file_diffs)
    /\ {out.files[i].filename : i \in DOMAIN out.files} = DOMAIN cm.file_diffs
    /\ \A i \in DOMAIN out.files :
          LET d == cm.file_diffs[out.files[i].filename]
          IN  out.files[i].rows =
                  [j \in 1..Len(d.lines) |->
                      [label |-> HighlightLabel(h, d.filename, d.lines[j]),
                       line |-> d.lines[j]]]

-----------------------------------------------------------------------------
(* Properties of the candidate list                                        *)

\* The length of the longest common prefix of a and b.
Lcp(a, b) ==
    CHOOSE k \in 0..Len(a) :
        /\ k <= Len(b)
        /\ \A i \in 1..k : a[i] = b[i]
        /\ (k = Len(a) \/ k = Len(b) \/ a[k + 1] # b[k + 1])

\* The similarity test on trimmed texts a, b at the threshold t = <<num, den>>.
SimilarAt(a, b, t) ==
    \/ a = <<>> /\ b = <<>>
    \/ /\ a # <<>>
       /\ b # <<>>
       /\ \/ Lcp(a, b) * t[2] > t[1] * Len(a)
          \/ Lcp(a, b) * t[2] > t[1] * Len(b)

Similar(l1, l2) ==
    SimilarAt(Unpadded(l1.line_contents), Unpadded(l2.line_contents), <<8, 10>>)

\* The position of the target line in the highlight set, and the target
\* DiffLine, in a PresentChoice state with an active target line.
TargetKey == <<Some(target_filename), None, Some(blame_target_line[1].orig_line_number)>>

TargetLine ==
    LET d == c[1].file_diffs[Some(target_filename)]
    IN  d.lines[CHOOSE i \in 1..Len(d.lines) :
                    /\ d.lines[i].left_line_num = None
                    /\ d.lines[i].right_line_num = TargetKey[3]
                    /\ \A j \in 1..(i - 1) :
                          ~(d.lines[j].left_line_num = None
                            /\ d.lines[j].right_line_num = TargetKey[3])]

DiffLinesOf(cm) ==
    UNION {{cm.file_diffs[fn].lines[i] : i \in 1..Len(cm.file_diffs[fn].lines)} :
              fn \in DOMAIN cm.file_diffs}

PositionOf(l) == <<l.filename, l.left_line_num, l.right_line_num>>

\* C6: with an active target line, the candidate list is exactly the set of
\* DiffLines of the shown revision that pass the similarity test against the
\* target DiffLine, are not equal to the target and have a pre-image line
\* number; the target is never a candidate and no pure addition is one.
C6_CandidatesExact ==
    (pc = "PresentChoice" /\ Truthy(target_line_num))
    => /\ {all_matches[i] : i \in DOMAIN all_matches}
            = {PositionOf(l) : l \in {x \in DiffLinesOf(c[1]) :
                                         /\ Similar(x, TargetLine)
                                         /\ x # TargetLine
                                         /\ x.left_line_num # None}}
       /\ Cardinality({all_matches[i] : i \in DOMAIN all_matches}) = Len(all_matches)
       /\ \A i \in DOMAIN all_matches :
             all_matches[i] # TargetKey /\ all_matches[i][2] # None

\* An addition with the target's text and a deleted line with it were both
\* in the shown revision; only the deleted line is a candidate.
C6_Witness ==
    /\ pc = "PresentChoice"
    /\ Truthy(target_line_num)
    /\ Len(all_matches) = 1
    /\ \E l \in DiffLinesOf(c[1]) :
          l # TargetLine /\ l.left_line_num = None /\ Similar(l, TargetLine)
    /\ \E l \in DiffLinesOf(c[1]) : l.left_line_num # None /\ ~Similar(l, TargetLine)

\* C7: lines_match on trimmed texts a, b at threshold t is true exactly when
\* both are empty, or both are non-empty and lcp/len(a) > t or lcp/len(b) > t
\* (strictly); 'foobar' vs 'foobaz' matches at 0.8 and not at 0.9; 0.8 is
\* used when no parameter is given.
C7_LinesMatch ==
    m_result # None
    => LET a == Unpadded(m_l1)
           b == Unpadded(m_l2)
           t == IF m_params = <<>> THEN <<8, 10>> ELSE m_params[1]
       IN  /\ m_result[1] = SimilarAt(a, b, t)
           /\ (a = <<>> /\ b = <<>>) => m_result[1]
           /\ (a = <<>> /\ b = <<"b">>) => ~m_result[1]
           /\ (a = FooBar /\ b = FooBaz /\ t = <<8, 10>>) => m_result[1]
           /\ (a = FooBar /\ b = FooBaz /\ t = <<9, 10>>) => ~m_result[1]

C7_Witness ==
    /\ m_l1 = FooBar
    /\ m_l2 = FooBaz
    /\ m_params = <<>>
    /\ m_result = Some(TRUE)

Decimal(i) == <<Digits[i + 1]>>

\* The file entry and the row of the display that carry label lab.
RowsLabelled(lab) ==
    UNION {{<<i, j>> : j \in {k \in DOMAIN stdout[1].files[i].rows :
                                  stdout[1].files[i].rows[k].label = Some(lab)}} :
              i \in DOMAIN stdout[1].files}

IndexOfLine(cm, m) ==
    CHOOSE k \in 1..Len(cm.file_diffs[m[1]].lines) :
        PositionOf(cm.file_diffs[m[1]].lines[k]) = m

\* The state part of C8: the order of the candidate list, the labels of the
\* highlight set and the labels displayed.
C8_ListAndLabels ==
    pc = "PresentChoice"
    => /\ \A i \in DOMAIN all_matches : \A j \in DOMAIN all_matches :
             i < j => LET a == all_matches[i]
                          b == all_matches[j]
                      IN  IF a[1] = b[1]
                          THEN IndexOfLine(c[1], a) < IndexOfLine(c[1], b)
                          ELSE a[1] # None /\ b[1] # None /\ StrLess(a[1][1], b[1][1])
       /\ IF Truthy(target_line_num)
          THEN /\ DOMAIN highlight_lines
                     = {TargetKey} \cup {all_matches[i] : i \in DOMAIN all_matches}
               /\ highlight_lines[TargetKey] = LabelTarget
               /\ \A i \in DOMAIN all_matches :
                     /\ highlight_lines[all_matches[i]] = Decimal(i)
                     /\ \E p \in RowsLabelled(Decimal(i)) : TRUE
                     /\ \A p \in RowsLabelled(Decimal(i)) :
                           PositionOf(stdout[1].files[p[1]].rows[p[2]].line) = all_matches[i]
          ELSE all_matches = <<>> /\ DOMAIN highlight_lines = {}

\* C8 as the specification states it: the candidate list is ordered by file
\* path and then by position in the file's diff; the highlight set maps the
\* target to 'target' and the i-th candidate to the label i; and entering i
\* selects the line displayed with label i.
C8_OrderLabelsAndSelection ==
    /\ []C8_ListAndLabels
    /\ [][\A s \in Inputs :
             (pc = "PresentChoice" /\ IsIndexInput(s, Len(all_matches)) /\ ReadChoice(s))
             => \E p \in RowsLabelled(Decimal(DigitsToNat(s))) :
                   LET l == stdout[1].files[p[1]].rows[p[2]].line
                   IN  /\ pc' = "ResolveStep"
                       /\ target_filename' = l.filename[1]
                       /\ target_line_num' = l.left_line_num]_vars

\* Line l of file fn is farther than the context distance from every
\* highlighted line of fn, in each numbering both lines have.
FartherThan(x, y, dist) == (x # None /\ y # None) => Abs(x[1] - y[1]) > dist

Suppressed(l, fn) ==
    \A k \in {x \in DOMAIN highlight_lines : x[1] = fn} :
        /\ FartherThan(l.left_line_num, k[2], ContextAroundHighlights)
        /\ FartherThan(l.right_line_num, k[3], ContextAroundHighlights)

NotSuppressed(l) == ~Suppressed(l, l.filename)

\* C9 as the specification states it: with a highlighted line and without
\* full diffs, a line is suppressed exactly when it is farther than the
\* context distance 10 from every highlighted line of its file, and a file
\* with no highlighted line is omitted; otherwise everything is displayed.
C9_ContextClipping ==
    pc = "PresentChoice"
    => IF ~full_diffs /\ DOMAIN highlight_lines # {}
       THEN \A fn \in DOMAIN c[1].file_diffs :
               IF \A k \in DOMAIN highlight_lines : k[1] # fn
               THEN \A i \in DOMAIN stdout[1].files : stdout[1].files[i].filename # fn
               ELSE \E i \in DOMAIN stdout[1].files :
                       /\ stdout[1].files[i].filename = fn
                       /\ [j \in DOMAIN stdout[1].files[i].rows |->
                              stdout[1].files[i].rows[j].line]
                            = SelectSeq(c[1].file_diffs[fn].lines, NotSuppressed)
       ELSE ShowsEverything(stdout[1], c[1], highlight_lines)

-----------------------------------------------------------------------------
(* The two-revision history                                                *)

LitOne == <<"1">>
LitFileALine5 == <<"a", ".", "t", "x", "t", ":", "5">>

\* The prompt of the first step of the trace from (R2, a.txt, 5).
AtFirstPrompt ==
    /\ repo = "tworev"
    /\ pc = "PresentChoice"
    /\ target_filename = FileA
    /\ target_line_num = Some(5)
    /\ commit_hash = HEAD

-----------------------------------------------------------------------------
(* Properties of the lookups of ResolveStep                                *)

\* The entries of annotation bl with current line number n, and the first.
EntriesOf(bl, n) == {i \in DOMAIN bl : bl[i].current_line_number = n}

FirstEntry(bl, n) ==
    bl[CHOOSE i \in EntriesOf(bl, n) : \A j \in EntriesOf(bl, n) : i <= j]

EntriesAt(n) == EntriesOf(file_blame[1], n)

\* The lines of FileDiff d keyed (absent pre-image, original line number o).
AddedAt(d, o) ==
    {i \in DOMAIN d.lines :
        d.lines[i].left_line_num = None /\ d.lines[i].right_line_num = Some(o)}

\* The step that has just been taken left ResolveStep by an uncaught KeyError.
AbortsNotFound ==
    /\ pc' = "Aborted"
    /\ error' = Some("KeyError")
    /\ exit_code' = Some(1)
    /\ stdout' = None
    /\ all_matches' = <<>>

\* C11: when ResolveStep asks for a current line number absent from the
\* fetched annotation, or for a key (absent pre-image, original line number)
\* absent from the revision's FileDiff, the lookup raises a not-found error
\* and returns no default entry, and the run aborts with a non-zero exit
\* status: no PresentChoice state is entered and no input is read afterwards.
C11_LookupFailureAborts ==
    /\ [][(pc = "ResolveStep" /\ Truthy(target_line_num) /\ file_blame' # None
             /\ \A i \in DOMAIN file_blame'[1] :
                   file_blame'[1][i].current_line_number # target_line_num[1])
            => AbortsNotFound]_vars
    /\ [][(pc = "ResolveStep" /\ Truthy(target_line_num) /\ file_blame' # None /\ c' # None
             /\ EntriesOf(file_blame'[1], target_line_num[1]) # {}
             /\ LET e == FirstEntry(file_blame'[1], target_line_num[1])
                IN  \/ Some(e.filename) \notin DOMAIN c'[1].file_diffs
                    \/ AddedAt(c'[1].file_diffs[Some(e.filename)], e.orig_line_number) = {})
            => AbortsNotFound]_vars
    /\ [](pc = "PresentChoice" /\ Truthy(target_line_num)
            => /\ file_blame # None
               /\ EntriesAt(target_line_num[1]) # {}
               /\ blame_target_line # None
               /\ blame_target_line[1] = FirstEntry(file_blame[1], target_line_num[1])
               /\ Some(target_filename) \in DOMAIN c[1].file_diffs
               /\ AddedAt(c[1].file_diffs[Some(target_filename)],
                          blame_target_line[1].orig_line_number) # {})
    /\ [](pc = "Aborted" => (exit_code = Some(1) /\ ~ENABLED Next))

\* The run has aborted on a current line number that the fetched annotation
\* (which has a line) does not have.
C11_Witness ==
    /\ pc = "Aborted"
    /\ error = Some("KeyError")
    /\ target_line_num = Some(2)
    /\ file_blame # None
    /\ Len(file_blame[1]) = 1
    /\ EntriesAt(2) = {}

-----------------------------------------------------------------------------
(* Properties of the diff parser                                           *)

\* The hunk headers of the form @@ -L,n +R,m @@ among the input lines, and
\* their start values (L, R).
WellFormedHeader(line) == line \in {HeaderTenTen, HeaderThreeSeven}

StartValues(line) == IF line = HeaderTenTen THEN <<10, 10>> ELSE <<3, 7>>

\* The indices of the body lines: what follows a header and is no header.
BodyIndices(lines) ==
    {i \in DOMAIN lines :
        /\ ~WellFormedHeader(lines[i])
        /\ \E h \in 1..(i - 1) : WellFormedHeader(lines[h])}

HeaderBefore(lines, i) ==
    CHOOSE h \in 1..(i - 1) :
        /\ WellFormedHeader(lines[h])
        /\ \A j \in (h + 1)..(i - 1) : ~WellFormedHeader(lines[j])

\* The number of lines of kind k between the header of line i and line i.
Preceding(lines, i, k) ==
    Cardinality({j \in (HeaderBefore(lines, i) + 1)..(i - 1) : lines[j][1] = k})

ExpectedNumbers(lines, i) ==
    LET start == StartValues(lines[HeaderBefore(lines, i)])
        left == Some(start[1] + Preceding(lines, i, " ") + Preceding(lines, i, "-"))
        right == Some(start[2] + Preceding(lines, i, " ") + Preceding(lines, i, "+"))
    IN  CASE lines[i][1] = " " -> <<left, right>>
          [] lines[i][1] = "-" -> <<left, None>>
          [] lines[i][1] = "+" -> <<None, right>>

TenTenExample ==
    <<HeaderTenTen, <<" ", "x">>, <<"+", "x">>, <<" ", "x">>, <<" ", "x">> >>

\* C12: for every hunk whose header has the form -L,n +R,m and every
\* sequence of context, deletion and addition lines, the parser emits one
\* DiffLine per body line, in order; a context line gets (L + c + d,
\* R + c + a), a deletion (L + c + d, absent), an addition (absent,
\* R + c + a), with c, d, a the context, deletion and addition lines before
\* it in the hunk; header 10,3 / 10,4 with one addition gives exactly one
\* DiffLine with only a post-image number.
C12_HunkArithmetic ==
    (d_result # None /\ ~d_result[1].failed)
    => /\ Len(d_result[1].lines) = Cardinality(BodyIndices(d_lines))
       /\ \A i \in BodyIndices(d_lines) :
             LET k == Cardinality({j \in BodyIndices(d_lines) : j <= i})
                 l == d_result[1].lines[k]
             IN  <<l.left_line_num, l.right_line_num>> = ExpectedNumbers(d_lines, i)
       /\ d_lines = TenTenExample
            => /\ Cardinality({k \in DOMAIN d_result[1].lines :
                                  d_result[1].lines[k].left_line_num = None}) = 1
               /\ [k \in DOMAIN d_result[1].lines |->
                      <<d_result[1].lines[k].left_line_num,
                        d_result[1].lines[k].right_line_num>>]
                    = << <<Some(10), Some(10)>>, <<None, Some(11)>>,
                         <<Some(11), Some(12)>>, <<Some(12), Some(13)>> >>

C12_Witness ==
    /\ d_lines = TenTenExample
    /\ d_result # None
    /\ ~d_result[1].failed
    /\ Len(d_result[1].lines) = 4

\* C13: every DiffLine of every parsed FileDiff has at least one of its two
\* line numbers; hence get_line with both numbers absent fails with a
\* not-found error (no line is returned), whatever was parsed.
C13_SomeNumberPresent ==
    /\ d_result # None
         => \A k \in DOMAIN d_result[1].lines :
               \/ d_result[1].lines[k].left_line_num # None
               \/ d_result[1].lines[k].right_line_num # None
    /\ (d_found # None /\ d_key = <<None, None>>) => d_found = Some(None)

C13_Witness ==
    /\ d_key = <<None, None>>
    /\ d_found = Some(None)
    /\ d_result # None
    /\ Len(d_result[1].lines) >= 3
    /\ \E k \in DOMAIN d_result[1].lines : d_result[1].lines[k].left_line_num = None
    /\ \E k \in DOMAIN d_result[1].lines : d_result[1].lines[k].right_line_num = None

-----------------------------------------------------------------------------
(* Properties of the resolution of a line                                  *)

\* The annotation entry of the cursor's line in the fetched annotation.
CursorEntry == FirstEntry(file_blame[1], target_line_num[1])

Stripped(hash) == IF hash # <<>> /\ hash[1] = "^" THEN Tail(hash) ELSE hash

\* C14: in every pass with an active line number n, the revision fetched
\* and shown is the originating revision of the annotation entry whose
\* current line number is n, a leading '^' stripped, and the target DiffLine
\* is the one keyed (absent, the entry's original line number) in the shown
\* revision's FileDiff for the entry's file path.
C14_ShownRevisionAndTarget ==
    (pc = "PresentChoice" /\ Truthy(target_line_num))
    => /\ Len(queries) = 3
       /\ queries[1].kind = "blame"
       /\ queries[2] = RevParseQuery(Stripped(CursorEntry.commit_hash))
       /\ RevIndex(repo, Stripped(CursorEntry.commit_hash)) # 0
       /\ c[1].hash = RevIds[RevIndex(repo, Stripped(CursorEntry.commit_hash))]
       /\ queries[3] = ShowQuery(c[1].hash)
       /\ stdout[1].hash = c[1].hash
       /\ {k \in DOMAIN highlight_lines : highlight_lines[k] = LabelTarget}
            = {<<Some(CursorEntry.filename), None, Some(CursorEntry.orig_line_number)>>}
       /\ Some(CursorEntry.filename) \in DOMAIN c[1].file_diffs
       /\ AddedAt(c[1].file_diffs[Some(CursorEntry.filename)],
                  CursorEntry.orig_line_number) # {}

\* The entry names another file than the cursor did and a root revision.
C14_Witness ==
    /\ pc = "PresentChoice"
    /\ Truthy(target_line_num)
    /\ CursorEntry.filename # queries[1].file
    /\ CursorEntry.commit_hash[1] = "^"
    /\ CursorEntry.orig_line_number # target_line_num[1]

\* C15: whenever the cursor carries a line number, whatever integer it is,
\* the pass looks it up as a current line number of the fetched annotation
\* (and aborts when no entry has it): the prompt is never reached as if no
\* line had been supplied.
C15_LineNumberLookedUp ==
    (pc = "PresentChoice" /\ target_line_num # None)
    => /\ blame_target_line # None
       /\ blame_target_line[1].current_line_number = target_line_num[1]
       /\ highlight_lines # EmptyDict

-----------------------------------------------------------------------------
(* Properties of the display-only mode                                     *)

\* The prompt of a pass that ran with no line number.
DisplayOnly == pc = "PresentChoice" /\ target_line_num = None

-----------------------------------------------------------------------------
(* Properties of the parser on malformed input                             *)

\* A line starting with '@@', with or without the counts.
IsHunkHeaderLine(line) == Len(line) >= 2 /\ line[1] = "@" /\ line[2] = "@"

FirstHunkHeader(lines) ==
    CHOOSE i \in DOMAIN lines :
        /\ IsHunkHeaderLine(lines[i])
        /\ \A j \in 1..(i - 1) : ~IsHunkHeaderLine(lines[j])

\* C17: malformed input is never silently tolerated: every line after the
\* first line starting with '@@' is a well-formed hunk header, or is emitted
\* as exactly one DiffLine, or makes the parse fail; a parse that does not
\* fail has one DiffLine for each such line that is no well-formed header.
C17_NoSilentDrop ==
    (/\ d_result # None
     /\ ~d_result[1].failed
     /\ \E i \in DOMAIN d_lines : IsHunkHeaderLine(d_lines[i]))
    => Len(d_result[1].lines)
         = Cardinality({j \in DOMAIN d_lines :
                           /\ j > FirstHunkHeader(d_lines)
                           /\ ~WellFormedHeader(d_lines[j])})

-----------------------------------------------------------------------------
(* Properties of the cursor's revision                                     *)

CanonicalIds == {RevIds[i] : i \in 1..RevCount(repo)}

\* C18: after any sequence of selections the cursor's revision is the
\* resolved canonical identifier of the revision shown in the previous
\* pass followed by exactly one '^': never a symbolic reference, never the
\* previous cursor string with a marker appended, and the markers do not
\* accumulate; without an active line the shown revision is the cursor's own.
C18_CursorIsResolvedParent ==
    /\ [](\/ commit_hash = HEAD
          \/ \E id \in CanonicalIds : commit_hash = id \o <<"^">>)
    /\ [](pc = "PresentChoice"
            => /\ c[1].hash \in CanonicalIds
               /\ ~Truthy(target_line_num)
                    => c[1].hash = RevIds[RevIndex(repo, commit_hash)])
    /\ [][(pc = "PresentChoice" /\ pc' = "ResolveStep")
            => /\ commit_hash' = c[1].hash \o <<"^">>
               /\ TrailingCarets(commit_hash') = 1
               /\ commit_hash' # commit_hash \o <<"^">>]_vars

\* A selection has been made while the root revision r1 was shown: the
\* cursor is r1^.
C18_Witness ==
    /\ pc = "ResolveStep"
    /\ choice.kind = "tuple"
    /\ commit_hash = RevIds[1] \o <<"^">>
    /\ queries = <<>>

-----------------------------------------------------------------------------
(* Properties of the queries of a pass                                     *)

QueryKinds(qs) == [i \in DOMAIN qs |-> qs[i].kind]

\* C19: every pass issues exactly one annotation query, for the cursor's
\* file and the cursor's revision, and then (unless the annotation or the
\* resolution of the revision has failed and ended the run) exactly one
\* change-set query, for the resolved revision, before anything is rendered
\* or read; nothing of an earlier pass is kept; f and rejected inputs issue
\* no query.
C19_FreshQueries ==
    /\ [][pc = "ResolveStep"
            => /\ queries = <<>> /\ file_blame = None /\ c = None /\ stdout = None
               /\ Len(queries') >= 1
               /\ queries'[1] = BlameQuery(target_filename, commit_hash)
               /\ QueryKinds(queries')
                    \in {<<"blame">>, <<"blame", "rev-parse">>,
                         <<"blame", "rev-parse", "show">>}
               /\ pc' = "PresentChoice"
                    => /\ Len(queries') = 3
                       /\ queries'[3] = ShowQuery(c'[1].hash)
                       /\ stdout' # None
               /\ Len(queries') < 3
                    => /\ pc' = "Aborted"
                       /\ error' \in {Some("CalledProcessError"), Some("KeyError")}
                       /\ stdout' = None]_vars
    /\ [](pc = "PresentChoice"
            => QueryKinds(queries) = <<"blame", "rev-parse", "show">>)
    /\ [][\A s \in Inputs :
             (ReadChoice(s) /\ (s = LitF \/ ~Recognized(s, Len(all_matches))))
             => UNCHANGED queries]_vars

\* A second pass, on the file of the first one, has fetched the annotation
\* of the parent of r2 and the change set of r1, and shows all of it.
C19_Witness ==
    /\ pc = "PresentChoice"
    /\ queries = <<BlameQuery(FileA, <<"r", "2", "^">>),
                   RevParseQuery(<<"r", "1">>), ShowQuery(<<"r", "1">>)>>
    /\ stdout # None
    /\ ShowsEverything(stdout[1], c[1], highlight_lines)
    /\ highlight_lines # EmptyDict

-----------------------------------------------------------------------------
(* Properties of the similarity test                                       *)

\* C20: the similarity test is symmetric: for all line contents l1, l2 and
\* every parameter setting, lines_match(l1, l2) = lines_match(l2, l1).
C20_LinesMatchSymmetric ==
    m_result # None => m_result[1] = lines_match(m_l2, m_l1, m_params)

\* The prefix is long enough for the second line only, and the lines match.
C20_Witness ==
    /\ m_l1 = <<"a", "b">>
    /\ m_l2 = <<"a">>
    /\ m_params = <<>>
    /\ m_result = Some(TRUE)

====
